---- MODULE Spec2Model ----
(***************************************************************************)
(* Model of the cTrader client (src/client.go): the request registry, the  *)
(* dispatcher handlerMessage, the request sender send, the lifecycle       *)
(* Start/Stop and the recovery loop handlerError.                          *)
(*                                                                         *)
(* Every goroutine is a process with a program counter; one action is one  *)
(* step of one goroutine between two points where another goroutine can    *)
(* observe or change shared state.                                         *)
(***************************************************************************)
EXTENDS Integers, Sequences, FiniteSets, TLC

(***************************************************************************)
(* Bounds of the model.                                                    *)
(***************************************************************************)
\* number of correlation ids uuid.NewV4 hands out to calls that register
MaxIds == 3
\* number of successful Transport.start calls (connections ever opened)
MaxConn == 2

(***************************************************************************)
(* Processes.                                                              *)
(***************************************************************************)
Main == "main"
Dispatcher == "disp"
Callers == {"c1", "c2"}
Handlers == {"h1", "h2"}
Lifecycle == {Main} \cup Handlers
Senders == Callers \cup Lifecycle
NoProc == "none"

(***************************************************************************)
(* Correlation ids.  1..MaxIds are the fresh ids of the calls that         *)
(* register; StrayId stands for every other id (that of a call without     *)
(* response, or one the peer invented): none of them ever is a key of the  *)
(* registry.  NoId is ClientMsgId == nil.                                  *)
(***************************************************************************)
Ids == 1..MaxIds
StrayId == 0
NoId == -1
ChanIds == Ids \cup {StrayId}
\* the reference held by the registry field before Start made a map
NilMap == 0

(***************************************************************************)
(* Type tags and message shapes: a case of the catalogue, and a tag the    *)
(* catalogue does not resolve.                                             *)
(***************************************************************************)
TypeTags == {"HEARTBEAT_EVENT", "PROTO_OA_APPLICATION_AUTH_REQ"}
NoShape == "unknown"

VARIABLES
    pc,               \* position of every process
    stopSignal,       \* Client.stopSignal
    wg,               \* Client.wg: the counter of the wait group
    requestRegistry,  \* Client.requestRegistry: the map the field refers to
    mutex,            \* Client.requestRegistryMutex: the holder, or NoProc
    chans,            \* the delivery channels, named by the id of the call that made them
    transport,        \* the transport: "stopped" or "started"
    conn,             \* number of the connection the transport opened last
    nextId,           \* the next fresh correlation id
    callId,           \* per sender: id of the call in progress
    hasResponse,      \* per sender: the hasResponse argument of the call in progress
    deferMap,         \* per sender: the map the deferred delete captured
    ctxDone,          \* per sender: ctx.Done() of the call in progress is closed
    callConn,         \* per sender: the connection the frame of the call left on
    sentFrame,        \* per sender: the envelope the call handed to Transport.send
    result,           \* per sender: what the call returns
    msg,              \* dispatcher: the frame in hand
    chanResponse,     \* dispatcher: the channel its lookup found
    event,            \* dispatcher: the message HandlerEvent is running on
    livenessFrame,    \* the envelope the keepalive loop handed to Transport.send last
    crashed           \* the runtime ended the process (fatal error)

vars == <<pc, stopSignal, wg, requestRegistry, mutex, chans, transport, conn, nextId,
          callId, hasResponse, deferMap, ctxDone, callConn, sentFrame, result, msg,
          chanResponse, event, livenessFrame, crashed>>

NoMsg == [kind |-> "none", cid |-> NoId, tag |-> "none", valid |-> FALSE, conn |-> 0]
NoResult == [kind |-> "none", cid |-> NoId, shape |-> NoShape, conn |-> 0]
NoEvent == [shape |-> NoShape, tag |-> "none"]
NoFrame == [sent |-> FALSE, cid |-> NoId]

Res(k) == [kind |-> k, cid |-> NoId, shape |-> NoShape, conn |-> 0]

(***************************************************************************)
(* responseMapping: the shape a type tag resolves to.                      *)
(***************************************************************************)
responseMapping(payloadType) ==
    CASE payloadType = "HEARTBEAT_EVENT" -> "ProtoHeartbeatEvent"
      [] OTHER -> NoShape

(***************************************************************************)
(* The registry.  The field holds a reference to a map; ref numbers the    *)
(* maps Start made, entries is the content of the map the field refers to  *)
(* now: a set of <<key, channel>>.  A map the field no longer refers to is *)
(* reached only by deferred deletes, and nothing reads it again, so its    *)
(* content is not kept.                                                    *)
(***************************************************************************)
\* chanResponse, ok := c.requestRegistry[id] (a missing key reads as the nil channel)
MapHas(m, id) == \E e \in m : e[1] = id
MapGet(m, id) == IF MapHas(m, id) THEN (CHOOSE e \in m : e[1] = id)[2] ELSE NoId
\* a registry with one slot for all: the insert points every key at the new channel
MapPutShared(m, id, ch) == {<<e[1], ch>> : e \in m} \cup {<<id, ch>>}
\* c.requestRegistry[id] = ch
MapPut(m, id, ch) == {e \in m : e[1] # id} \cup {<<id, ch>>}
\* delete(c.requestRegistry, id)
MapDelete(m, id) == {e \in m : e[1] # id}
MapKeys(m) == {e[1] : e \in m}

\* the client as constructed: no field set, nothing running
Constructed ==
    [pc |-> [p \in Senders \cup {Dispatcher} |-> "idle"],
     callId |-> [p \in Senders |-> NoId],
     hasResponse |-> [p \in Senders |-> FALSE],
     deferMap |-> [p \in Senders |-> NilMap],
     ctxDone |-> [p \in Senders |-> FALSE],
     callConn |-> [p \in Senders |-> 0],
     sentFrame |-> [p \in Senders |-> NoFrame],
     result |-> [p \in Senders |-> NoResult],
     requestRegistry |-> [ref |-> NilMap, entries |-> {}],
     chans |-> [i \in ChanIds |-> <<>>]]

Init ==
    /\ pc = Constructed.pc
    /\ stopSignal = FALSE
    /\ wg = 0
    /\ requestRegistry = Constructed.requestRegistry
    /\ mutex = NoProc
    /\ chans = Constructed.chans
    /\ transport = "stopped"
    /\ conn = 0
    /\ nextId = 1
    /\ callId = Constructed.callId
    /\ hasResponse = Constructed.hasResponse
    /\ deferMap = Constructed.deferMap
    /\ ctxDone = Constructed.ctxDone
    /\ callConn = Constructed.callConn
    /\ sentFrame = Constructed.sentFrame
    /\ result = Constructed.result
    /\ msg = NoMsg
    /\ chanResponse = NoId
    /\ event = NoEvent
    /\ livenessFrame = NoFrame
    /\ crashed = FALSE

Goto(p, l) == pc' = [pc EXCEPT ![p] = l]

\* p is inside a call of send
InCall(p) == pc[p] \in {"send_lock", "send_insert", "send_defer", "send_transport",
                        "send_select", "send_exit"}

(***************************************************************************)
(* send: the request sender.                                               *)
(***************************************************************************)
\* message.ClientMsgId of the envelope send builds (lines 121-127)
EnvelopeClientMsgId(id, hr) == id

\* "if hasResponse {": the call makes a channel, registers it and defers the delete
Registers(hr) == hr

\* a send without the early return: every call goes on to the select
AwaitsAlways(hr) == TRUE
\* "if !hasResponse { return nil, nil }": otherwise the call goes on to the select
Awaits(hr) == hr

\* a select whose context case needs no deadline (a context born cancelled)
CtxCaseAlways(p) == TRUE
\* the cases of the select that can be taken: the context, the channel
CtxCaseReady(p) == ctxDone[p]
ChanCaseReady(p) == chans[callId[p]] # <<>>

\* the payload types and payloads a frame can carry: <<tag, the payload decodes>>
Payloads ==
    {<<t, v>> \in TypeTags \X BOOLEAN : responseMapping(t) = NoShape => v}

\* handlerMessage never reads PayloadType and Payload of a frame that has an id; the
\* frame carries them unread, and they are settled where send reads them
Unread == "unread"
Read(m, pl) == [m EXCEPT !.tag = pl[1], !.valid = pl[2]]

\* what send returns for the envelope it received on its channel (lines 154-161)
DecodeResponse(messageBase) ==
    LET shape == responseMapping(messageBase.tag) IN
    IF shape = NoShape THEN Res("typeerr")
    ELSE IF ~messageBase.valid THEN Res("decodeerr")
    ELSE [kind |-> "ok", cid |-> messageBase.cid, shape |-> shape, conn |-> messageBase.conn]

\* where a sender goes on when send returned res: a caller is done; Start goes on to
\* keepalive after a handshake without error and returns the error otherwise, which
\* ends the application's Start and sends handlerError to its backoff
AfterSend(p, res) ==
    IF p \in Callers THEN "idle"
    ELSE IF res.kind = "ok" THEN "start_keepalive"
    ELSE IF p = Main THEN "failed"
    ELSE "backoff"

\* the id uuid.NewV4 gives a new call
NewId(hr) == IF Registers(hr) THEN nextId ELSE StrayId

\* the ids of the calls in progress
LiveIds == {callId[p] : p \in {q \in Senders : InCall(q)}}

\* garbage collection: a channel that no call in progress (live), no entry of the
\* registry and not the dispatcher (held) refers to is gone with what its slot held
Collect(chs, entries, live, held) ==
    [i \in ChanIds |->
        IF i \in live \/ i = held \/ (\E e \in entries : e[2] = i) THEN chs[i] ELSE <<>>]

\* lines 113-135: send builds the envelope and, if it registers, the channel
BeginCall(p, hr) ==
    /\ Registers(hr) => nextId <= MaxIds
    /\ callId' = [callId EXCEPT ![p] = NewId(hr)]
    /\ nextId' = IF Registers(hr) THEN nextId + 1 ELSE nextId
    /\ hasResponse' = [hasResponse EXCEPT ![p] = hr]

\* an application call enters send and, if it registers, takes the lock (lines
\* 113-136).  (A proto.Marshal failure returns before send touched anything.)
SendBegin(p) ==
    /\ p \in Callers
    /\ pc[p] = "idle"
    /\ pc[Main] = "done"
    /\ \E hr \in BOOLEAN :
         /\ BeginCall(p, hr)
         /\ IF Registers(hr)
            THEN /\ mutex = NoProc
                 /\ mutex' = p
                 /\ Goto(p, "send_insert")
            ELSE /\ Goto(p, "send_transport")
                 /\ UNCHANGED mutex
    /\ UNCHANGED <<stopSignal, wg, requestRegistry, chans, transport, conn, deferMap,
                   ctxDone, callConn, sentFrame, result, msg, chanResponse, event,
                   livenessFrame, crashed>>

\* line 136: c.requestRegistryMutex.Lock(), in the send of Start's handshake
SendLock(p) ==
    /\ pc[p] = "send_lock"
    /\ mutex = NoProc
    /\ mutex' = p
    /\ Goto(p, "send_insert")
    /\ UNCHANGED <<stopSignal, wg, requestRegistry, chans, transport, conn, nextId,
                   callId, hasResponse, deferMap, ctxDone, callConn, sentFrame, result,
                   msg, chanResponse, event, livenessFrame, crashed>>

\* lines 137-138: c.requestRegistry[id] = chanResponse; Unlock().  (Start made the
\* map at line 49 before any send runs, so the insert never finds a nil map.)
SendInsert(p) ==
    /\ pc[p] = "send_insert"
    /\ mutex = p
    /\ mutex' = NoProc
    /\ requestRegistry' =
          [requestRegistry EXCEPT !.entries = MapPut(@, callId[p], callId[p])]
    /\ Goto(p, "send_defer")
    /\ UNCHANGED <<stopSignal, wg, chans, transport, conn, nextId, callId, hasResponse,
                   deferMap, ctxDone, callConn, sentFrame, result, msg, chanResponse,
                   event, livenessFrame, crashed>>

\* line 139: defer delete(c.requestRegistry, id): the arguments are evaluated now
SendDefer(p) ==
    /\ pc[p] = "send_defer"
    /\ deferMap' = [deferMap EXCEPT ![p] = requestRegistry.ref]
    /\ Goto(p, "send_transport")
    /\ UNCHANGED <<stopSignal, wg, requestRegistry, mutex, chans, transport, conn,
                   nextId, callId, hasResponse, ctxDone, callConn, sentFrame, result,
                   msg, chanResponse, event, livenessFrame, crashed>>

\* send has its return values and runs its deferred calls
Exit(p) == "send_exit"

\* lines 142-148: c.Transport.send(payload)
SendTransport(p) ==
    /\ pc[p] = "send_transport"
    /\ \/ /\ transport = "started"
          /\ sentFrame' = [sentFrame EXCEPT ![p] =
                  [sent |-> TRUE, cid |-> EnvelopeClientMsgId(callId[p], hasResponse[p])]]
          /\ callConn' = [callConn EXCEPT ![p] = conn]
          /\ IF Awaits(hasResponse[p])
             THEN /\ Goto(p, "send_select")
                  /\ UNCHANGED result
             ELSE /\ result' = [result EXCEPT ![p] = Res("nil")]
                  /\ Goto(p, Exit(p))
       \/ /\ result' = [result EXCEPT ![p] = Res("senderr")]
          /\ Goto(p, Exit(p))
          /\ UNCHANGED <<sentFrame, callConn>>
    /\ UNCHANGED <<stopSignal, wg, requestRegistry, mutex, chans, transport, conn,
                   nextId, callId, hasResponse, deferMap, ctxDone, msg, chanResponse,
                   event, livenessFrame, crashed>>

\* the deadline of the call's context passes, or the context is cancelled.  send
\* reads the context in its select only
CtxFires(p) ==
    /\ pc[p] = "send_select"
    /\ ~ctxDone[p]
    /\ ctxDone' = [ctxDone EXCEPT ![p] = TRUE]
    /\ UNCHANGED <<pc, stopSignal, wg, requestRegistry, mutex, chans, transport, conn,
                   nextId, callId, hasResponse, deferMap, callConn, sentFrame, result,
                   msg, chanResponse, event, livenessFrame, crashed>>

\* lines 150-162: the select
SendSelect(p) ==
    /\ pc[p] = "send_select"
    /\ \/ /\ CtxCaseReady(p)
          /\ result' = [result EXCEPT ![p] = Res("timeout")]
          /\ UNCHANGED chans
       \/ /\ ChanCaseReady(p)
          /\ \E pl \in Payloads :
                result' = [result EXCEPT ![p] =
                              DecodeResponse(Read(Head(chans[callId[p]]), pl))]
          /\ chans' = [chans EXCEPT ![callId[p]] = Tail(@)]
    /\ ctxDone' = [ctxDone EXCEPT ![p] = FALSE]
    /\ Goto(p, Exit(p))
    /\ UNCHANGED <<stopSignal, wg, requestRegistry, mutex, transport, conn, nextId,
                   callId, hasResponse, deferMap, callConn, sentFrame, msg, chanResponse,
                   event, livenessFrame, crashed>>

\* a send that deletes its entry on the path that returns the response only, instead
\* of deferring the delete
DeletedOnSuccess(p) ==
    IF /\ result[p].kind = "ok"
       /\ Registers(hasResponse[p]) /\ deferMap[p] = requestRegistry.ref /\ deferMap[p] # NilMap
    THEN [requestRegistry EXCEPT !.entries = MapDelete(@, callId[p])]
    ELSE requestRegistry
\* the registry after the deferred delete(c.requestRegistry, id) of p, which takes no
\* lock; a call that did not register deferred nothing, and a delete on a nil map or
\* on a map the field no longer refers to leaves the registry as it is
Deleted(p) ==
    IF Registers(hasResponse[p]) /\ deferMap[p] = requestRegistry.ref /\ deferMap[p] # NilMap
    THEN [requestRegistry EXCEPT !.entries = MapDelete(@, callId[p])]
    ELSE requestRegistry

\* the deferred delete ends and send returns result[p] to its caller
SendExit(p) ==
    /\ pc[p] = "send_exit"
    /\ requestRegistry' = Deleted(p)
    /\ Goto(p, AfterSend(p, result[p]))
    /\ chans' = Collect(chans, Deleted(p).entries, LiveIds \ {callId[p]}, chanResponse)
    /\ callId' = [callId EXCEPT ![p] = NoId]
    /\ hasResponse' = [hasResponse EXCEPT ![p] = FALSE]
    /\ deferMap' = [deferMap EXCEPT ![p] = NilMap]
    /\ callConn' = [callConn EXCEPT ![p] = 0]
    /\ sentFrame' = [sentFrame EXCEPT ![p] = NoFrame]
    /\ result' = [result EXCEPT ![p] = NoResult]
    /\ UNCHANGED <<stopSignal, wg, mutex, transport, conn, nextId, ctxDone, msg,
                   chanResponse, event, livenessFrame, crashed>>

(***************************************************************************)
(* handlerMessage: the dispatcher, run by the transport's reader for every *)
(* inbound frame.                                                          *)
(***************************************************************************)
\* the correlation ids the peer has seen and can still hit an entry with: those of the
\* calls in progress whose frame left through Transport.send (an id is a fresh uuid,
\* line 121; the id of a call that returned is never a key again, StrayId stands for it)
OnWire ==
    {callId[p] : p \in {q \in Senders : InCall(q) /\ callId[q] \in Ids /\ sentFrame[q].sent}}

\* the frames the peer can put on the open connection
Inbound ==
    {[kind |-> "malformed", cid |-> NoId, tag |-> "none", valid |-> FALSE, conn |-> conn]}
    \cup
    {[kind |-> "frame", cid |-> NoId, tag |-> pl[1], valid |-> pl[2], conn |-> conn] :
        pl \in Payloads}
    \cup
    {[kind |-> "frame", cid |-> c, tag |-> Unread, valid |-> FALSE, conn |-> conn] :
        c \in {StrayId} \cup OnWire}

\* proto.Unmarshal(payload, &msg) succeeds
EnvelopeDecodes(m) == m.kind = "frame"

\* a dispatcher without the test for events: every frame goes to the lookup
IsEventNever(m) == FALSE
\* "if msg.ClientMsgId == nil": the frame is an unsolicited event
IsEvent(m) == m.cid = NoId

\* a dispatcher that ignores the errors of responseMapping and proto.Unmarshal
EventDecodesAlways(m) == TRUE
\* the event path reaches HandlerEvent: the tag resolves and the payload decodes
EventDecodes(m) == responseMapping(m.tag) # NoShape /\ m.valid

\* the message handed to HandlerEvent: the payload decoded with the resolved shape
DecodeEvent(m) == [shape |-> responseMapping(m.tag), tag |-> m.tag]

\* a dispatcher that ignores ok, and one that takes any entry of the registry
LookupOkAlways(m, id) == TRUE
LookupAny(m, id) == IF m = {} THEN NoId ELSE (CHOOSE e \in m : TRUE)[2]
\* chanResponse, ok := c.requestRegistry[*msg.ClientMsgId]
LookupOk(m, id) == MapHas(m, id)
Lookup(m, id) == MapGet(m, id)

\* the transport's reader calls handlerMessage(payload)
DRecv ==
    /\ pc[Dispatcher] = "idle"
    /\ transport = "started"
    /\ \E m \in Inbound : msg' = m
    /\ Goto(Dispatcher, "d_unmarshal")
    /\ UNCHANGED <<stopSignal, wg, requestRegistry, mutex, chans, transport, conn,
                   nextId, callId, hasResponse, deferMap, ctxDone, callConn, sentFrame,
                   result, chanResponse, event, livenessFrame, crashed>>

\* lines 69-86: decode the envelope; an event is decoded and handed to HandlerEvent,
\* a frame with an id goes on to take the lock
DUnmarshal ==
    /\ pc[Dispatcher] = "d_unmarshal"
    /\ IF ~EnvelopeDecodes(msg)
       THEN /\ msg' = NoMsg
            /\ Goto(Dispatcher, "idle")
            /\ UNCHANGED <<event, mutex>>
       ELSE IF IsEvent(msg)
       THEN IF EventDecodes(msg)
            THEN /\ event' = DecodeEvent(msg)
                 /\ Goto(Dispatcher, "d_event")
                 /\ UNCHANGED <<msg, mutex>>
            ELSE /\ msg' = NoMsg
                 /\ Goto(Dispatcher, "idle")
                 /\ UNCHANGED <<event, mutex>>
       ELSE /\ mutex = NoProc
            /\ mutex' = Dispatcher
            /\ Goto(Dispatcher, "d_lookup")
            /\ UNCHANGED <<msg, event>>
    /\ UNCHANGED <<stopSignal, wg, requestRegistry, chans, transport, conn, nextId,
                   callId, hasResponse, deferMap, ctxDone, callConn, sentFrame, result,
                   chanResponse, livenessFrame, crashed>>

\* line 84: c.HandlerEvent(message) returns, and handlerMessage with it
DEvent ==
    /\ pc[Dispatcher] = "d_event"
    /\ event' = NoEvent
    /\ msg' = NoMsg
    /\ Goto(Dispatcher, "idle")
    /\ UNCHANGED <<stopSignal, wg, requestRegistry, mutex, chans, transport, conn,
                   nextId, callId, hasResponse, deferMap, ctxDone, callConn, sentFrame,
                   result, chanResponse, livenessFrame, crashed>>

\* a lookup whose Unlock() is deferred to the return of handlerMessage: the lock is
\* kept through the channel send
DLookupDeferredUnlock ==
    /\ pc[Dispatcher] = "d_lookup"
    /\ mutex = Dispatcher
    /\ mutex' = IF LookupOk(requestRegistry.entries, msg.cid) THEN Dispatcher ELSE NoProc
    /\ IF LookupOk(requestRegistry.entries, msg.cid)
       THEN /\ chanResponse' = Lookup(requestRegistry.entries, msg.cid)
            /\ Goto(Dispatcher, "d_send")
            /\ UNCHANGED msg
       ELSE /\ msg' = NoMsg
            /\ Goto(Dispatcher, "idle")
            /\ UNCHANGED chanResponse
    /\ UNCHANGED <<stopSignal, wg, requestRegistry, chans, transport, conn, nextId,
                   callId, hasResponse, deferMap, ctxDone, callConn, sentFrame, result,
                   event, livenessFrame, crashed>>

\* lines 87-92: the lookup, Unlock(), and the return when the id is not found
DLookup ==
    /\ pc[Dispatcher] = "d_lookup"
    /\ mutex = Dispatcher
    /\ mutex' = NoProc
    /\ IF LookupOk(requestRegistry.entries, msg.cid)
       THEN /\ chanResponse' = Lookup(requestRegistry.entries, msg.cid)
            /\ Goto(Dispatcher, "d_send")
            /\ UNCHANGED msg
       ELSE /\ msg' = NoMsg
            /\ Goto(Dispatcher, "idle")
            /\ UNCHANGED chanResponse
    /\ UNCHANGED <<stopSignal, wg, requestRegistry, chans, transport, conn, nextId,
                   callId, hasResponse, deferMap, ctxDone, callConn, sentFrame, result,
                   event, livenessFrame, crashed>>

\* line 93: chanResponse <- &msg, which blocks while the channel's one slot is taken
\* (and for ever on a nil channel)
DSend ==
    /\ pc[Dispatcher] = "d_send"
    /\ chanResponse # NoId
    /\ Len(chans[chanResponse]) < 1
    /\ chans' = Collect([chans EXCEPT ![chanResponse] = Append(@, msg)],
                        requestRegistry.entries, LiveIds, NoId)
    /\ msg' = NoMsg
    /\ chanResponse' = NoId
    /\ Goto(Dispatcher, "idle")
    /\ UNCHANGED <<stopSignal, wg, requestRegistry, mutex, transport, conn, nextId,
                   callId, hasResponse, deferMap, ctxDone, callConn, sentFrame, result,
                   event, livenessFrame, crashed>>

(***************************************************************************)
(* Stop, Start and handlerError.                                           *)
(***************************************************************************)
\* a handlerError that retries the half that failed, not the pair from Stop
AfterErrorResume(p) == IF p = Main THEN "failed" ELSE "start_transport"
\* where the caller of Start or Stop goes on when the call returned an error: the
\* application gives up, handlerError sleeps and starts over
AfterError(p) == IF p = Main THEN "failed" ELSE "backoff"

\* the application calls Start on the constructed client (once, in a live process)
AppStart ==
    /\ ~crashed
    /\ pc[Main] = "idle"
    /\ Goto(Main, "start_transport")
    /\ UNCHANGED <<stopSignal, wg, requestRegistry, mutex, chans, transport, conn,
                   nextId, callId, hasResponse, deferMap, ctxDone, callConn, sentFrame,
                   result, msg, chanResponse, event, livenessFrame, crashed>>

\* the transport reports a fatal error on the started client: its activity runs
\* handlerError (line 97).  (Errors are reported as long as the model can open
\* another connection.)
TransportError(h) ==
    /\ pc[h] = "idle"
    /\ pc[Main] = "done"
    /\ transport = "started"
    /\ conn < MaxConn
    /\ Goto(h, "stop_store")
    /\ UNCHANGED <<stopSignal, wg, requestRegistry, mutex, chans, transport, conn,
                   nextId, callId, hasResponse, deferMap, ctxDone, callConn, sentFrame,
                   result, msg, chanResponse, event, livenessFrame, crashed>>

\* line 60: c.stopSignal.Store(true)
StopStore(h) ==
    /\ pc[h] = "stop_store"
    /\ stopSignal' = TRUE
    /\ Goto(h, "stop_wait")
    /\ UNCHANGED <<wg, requestRegistry, mutex, chans, transport, conn, nextId, callId,
                   hasResponse, deferMap, ctxDone, callConn, sentFrame, result, msg,
                   chanResponse, event, livenessFrame, crashed>>

\* line 61: c.wg.Wait()
StopWait(h) ==
    /\ pc[h] = "stop_wait"
    /\ wg = 0
    /\ Goto(h, "stop_transport")
    /\ UNCHANGED <<stopSignal, wg, requestRegistry, mutex, chans, transport, conn,
                   nextId, callId, hasResponse, deferMap, ctxDone, callConn, sentFrame,
                   result, msg, chanResponse, event, livenessFrame, crashed>>

\* lines 62-65 and 99-103: c.Transport.stop(); a failure leaves the transport in
\* either state and sends handlerError to its backoff
StopTransport(h) ==
    /\ pc[h] = "stop_transport"
    /\ \/ /\ transport' = "stopped"
          /\ Goto(h, "start_transport")
       \/ /\ transport' \in {transport, "stopped"}
          /\ Goto(h, AfterError(h))
    /\ UNCHANGED <<stopSignal, wg, requestRegistry, mutex, chans, conn, nextId, callId,
                   hasResponse, deferMap, ctxDone, callConn, sentFrame, result, msg,
                   chanResponse, event, livenessFrame, crashed>>

\* lines 101 and 106: time.Sleep(time.Second); continue
Backoff(h) ==
    /\ pc[h] = "backoff"
    /\ Goto(h, "stop_store")
    /\ UNCHANGED <<stopSignal, wg, requestRegistry, mutex, chans, transport, conn,
                   nextId, callId, hasResponse, deferMap, ctxDone, callConn, sentFrame,
                   result, msg, chanResponse, event, livenessFrame, crashed>>

\* lines 39-48: setHandler and c.Transport.start(address)
StartTransport(p) ==
    /\ pc[p] = "start_transport"
    /\ \/ /\ conn < MaxConn
          /\ transport' = "started"
          /\ conn' = conn + 1
          /\ Goto(p, "start_registry")
       \/ /\ Goto(p, AfterError(p))
          /\ UNCHANGED <<transport, conn>>
    /\ UNCHANGED <<stopSignal, wg, requestRegistry, mutex, chans, nextId, callId,
                   hasResponse, deferMap, ctxDone, callConn, sentFrame, result, msg,
                   chanResponse, event, livenessFrame, crashed>>

\* line 49: c.requestRegistry = make(map...), without the lock
NewRegistry == [ref |-> requestRegistry.ref + 1, entries |-> {}]

\* lines 49-52: the registry becomes a new empty map, and applicationAuthorization
\* enters send with hasResponse = true
StartRegistry(p) ==
    /\ pc[p] = "start_registry"
    /\ requestRegistry' = NewRegistry
    /\ BeginCall(p, TRUE)
    /\ Goto(p, "send_lock")
    /\ chans' = Collect(chans, NewRegistry.entries, LiveIds, chanResponse)
    /\ UNCHANGED <<stopSignal, wg, mutex, transport, conn, deferMap, ctxDone, callConn,
                   sentFrame, result, msg, chanResponse, event, livenessFrame, crashed>>

\* lines 55-56: c.keepalive() adds the loop to the wait group and spawns it; Start
\* returns nil, and handlerError leaves its loop
StartKeepalive(p) ==
    /\ pc[p] = "start_keepalive"
    /\ wg' = wg + 1
    /\ Goto(p, IF p = Main THEN "done" ELSE "idle")
    /\ UNCHANGED <<stopSignal, requestRegistry, mutex, chans, transport, conn, nextId,
                   callId, hasResponse, deferMap, ctxDone, callConn, sentFrame, result,
                   msg, chanResponse, event, livenessFrame, crashed>>

(***************************************************************************)
(* The keepalive loop.                                                     *)
(***************************************************************************)
\* a keepalive loop finds the stop signal clear and sends the liveness frame through
\* send with hasResponse = false
KeepaliveSend ==
    /\ wg > 0
    /\ ~stopSignal
    /\ transport = "started"
    /\ livenessFrame' = [sent |-> TRUE, cid |-> EnvelopeClientMsgId(NewId(FALSE), FALSE)]
    /\ UNCHANGED <<pc, stopSignal, wg, requestRegistry, mutex, chans, transport, conn,
                   nextId, callId, hasResponse, deferMap, ctxDone, callConn, sentFrame,
                   result, msg, chanResponse, event, crashed>>

\* a keepalive loop finds the stop signal set and exits: wg.Done()
KeepaliveExit ==
    /\ wg > 0
    /\ stopSignal
    /\ wg' = wg - 1
    /\ livenessFrame' = NoFrame
    /\ UNCHANGED <<pc, stopSignal, requestRegistry, mutex, chans, transport, conn,
                   nextId, callId, hasResponse, deferMap, ctxDone, callConn, sentFrame,
                   result, msg, chanResponse, event, crashed>>

(***************************************************************************)
(* The data race on the map.  The deferred delete writes the map without   *)
(* the lock; when it overlaps another access to the same map the runtime   *)
(* may end the process ("fatal error: concurrent map writes", "concurrent  *)
(* map read and map write") or let both accesses through.                  *)
(***************************************************************************)
\* p is inside an access to the content of map ref
Accesses(p, ref) ==
    \/ p \in Senders /\ pc[p] = "send_exit" /\ Registers(hasResponse[p]) /\ deferMap[p] = ref
    \/ p \in Senders /\ pc[p] = "send_insert" /\ requestRegistry.ref = ref
    \/ p = Dispatcher /\ pc[p] = "d_lookup" /\ requestRegistry.ref = ref

\* p holds requestRegistryMutex
Holds(p) == mutex = p

MapRace ==
    \E ref \in 1..requestRegistry.ref : \E p, q \in Senders \cup {Dispatcher} :
        /\ p # q
        /\ Accesses(p, ref) /\ Accesses(q, ref)
        /\ ~Holds(p)

\* the runtime ends the process: its goroutines and its memory are gone
Fatal ==
    /\ MapRace
    /\ crashed' = TRUE
    /\ pc' = Constructed.pc
    /\ stopSignal' = FALSE
    /\ wg' = 0
    /\ requestRegistry' = Constructed.requestRegistry
    /\ mutex' = NoProc
    /\ chans' = Constructed.chans
    /\ transport' = "stopped"
    /\ conn' = 0
    /\ nextId' = 1
    /\ callId' = Constructed.callId
    /\ hasResponse' = Constructed.hasResponse
    /\ deferMap' = Constructed.deferMap
    /\ ctxDone' = Constructed.ctxDone
    /\ callConn' = Constructed.callConn
    /\ sentFrame' = Constructed.sentFrame
    /\ result' = Constructed.result
    /\ msg' = NoMsg
    /\ chanResponse' = NoId
    /\ event' = NoEvent
    /\ livenessFrame' = NoFrame

(***************************************************************************)
(* Spec: the application starts the client and calls it from one           *)
(* goroutine; the transport reports errors, which handlerError recovers.   *)
(* (After Fatal nothing is enabled: no process is left.)                   *)
(***************************************************************************)
Next ==
    \/ AppStart
    \/ \E p \in {Main, "h1"} : StartTransport(p)
    \/ \E p \in {Main, "h1"} : StartRegistry(p)
    \/ \E p \in {Main, "h1"} : SendLock(p)
    \/ \E p \in {Main, "h1"} : StartKeepalive(p)
    \/ SendBegin("c1")
    \/ \E p \in {Main, "h1", "c1"} : SendInsert(p)
    \/ \E p \in {Main, "h1", "c1"} : SendDefer(p)
    \/ \E p \in {Main, "h1", "c1"} : SendTransport(p)
    \/ \E p \in {Main, "h1", "c1"} : CtxFires(p)
    \/ \E p \in {Main, "h1", "c1"} : SendSelect(p)
    \/ \E p \in {Main, "h1", "c1"} : SendExit(p)
    \/ DRecv
    \/ DUnmarshal
    \/ DEvent
    \/ DLookup
    \/ DSend
    \/ TransportError("h1")
    \/ StopStore("h1")
    \/ StopWait("h1")
    \/ StopTransport("h1")
    \/ Backoff("h1")
    \/ KeepaliveSend
    \/ KeepaliveExit
    \/ Fatal

Spec == Init /\ [][Next]_vars

(***************************************************************************)
(* SpecCalls: the application starts the client and calls it from two      *)
(* goroutines at once; the transport reports no error.                     *)
(***************************************************************************)
NextCalls ==
    \/ AppStart
    \/ StartTransport(Main)
    \/ StartRegistry(Main)
    \/ SendLock(Main)
    \/ StartKeepalive(Main)
    \/ \E p \in Callers : SendBegin(p)
    \/ \E p \in {Main} \cup Callers : SendInsert(p)
    \/ \E p \in {Main} \cup Callers : SendDefer(p)
    \/ \E p \in {Main} \cup Callers : SendTransport(p)
    \/ \E p \in {Main} \cup Callers : CtxFires(p)
    \/ \E p \in {Main} \cup Callers : SendSelect(p)
    \/ \E p \in {Main} \cup Callers : SendExit(p)
    \/ DRecv
    \/ DUnmarshal
    \/ DEvent
    \/ DLookup
    \/ DSend
    \/ KeepaliveSend
    \/ Fatal

SpecCalls == Init /\ [][NextCalls]_vars

(***************************************************************************)
(* SpecErrors: the application starts the client and makes no call; the    *)
(* transport reports errors from two of its activities, so that two        *)
(* handlerError run at once.                                               *)
(***************************************************************************)
NextErrors ==
    \/ AppStart
    \/ \E p \in Lifecycle : StartTransport(p)
    \/ \E p \in Lifecycle : StartRegistry(p)
    \/ \E p \in Lifecycle : SendLock(p)
    \/ \E p \in Lifecycle : StartKeepalive(p)
    \/ \E p \in Lifecycle : SendInsert(p)
    \/ \E p \in Lifecycle : SendDefer(p)
    \/ \E p \in Lifecycle : SendTransport(p)
    \/ \E p \in Lifecycle : CtxFires(p)
    \/ \E p \in Lifecycle : SendSelect(p)
    \/ \E p \in Lifecycle : SendExit(p)
    \/ DRecv
    \/ DUnmarshal
    \/ DEvent
    \/ DLookup
    \/ DSend
    \/ \E h \in Handlers : TransportError(h)
    \/ \E h \in Handlers : StopStore(h)
    \/ \E h \in Handlers : StopWait(h)
    \/ \E h \in Handlers : StopTransport(h)
    \/ \E h \in Handlers : Backoff(h)
    \/ KeepaliveSend
    \/ KeepaliveExit
    \/ Fatal

SpecErrors == Init /\ [][NextErrors]_vars

(***************************************************************************)
(* The properties of the client.                                           *)
(***************************************************************************)
\* the senders whose call waits in the select of send
Blocked == {p \in Senders : pc[p] = "send_select"}

\* every frame in the delivery channels
FramesIn(ch) == {chans[ch][i] : i \in 1..Len(chans[ch])}

\* C1: no cross-delivery.  A frame that carries correlation id X is only ever placed
\* in the channel registered under X: every frame in a channel carries the id the
\* channel was registered under, the channel the dispatcher is about to send to is
\* the one of the frame's id, and a response send returns carries the id of the call
\* that returns it.
NoCrossDelivery ==
    /\ \A ch \in ChanIds : \A f \in FramesIn(ch) : f.cid = ch
    /\ pc[Dispatcher] = "d_send" => chanResponse = msg.cid
    /\ \A p \in Senders : result[p].kind = "ok" => result[p].cid = callId[p]

\* two calls with distinct ids are blocked at once and each has its frame in its slot
TwoBlockedBothDelivered ==
    /\ pc["c1"] = "send_select" /\ pc["c2"] = "send_select"
    /\ callId["c1"] # callId["c2"]
    /\ chans[callId["c1"]] # <<>> /\ chans[callId["c2"]] # <<>>

\* C2: a call with hasResponse = true that no frame of its id reaches (its channel is
\* empty when it leaves the select) leaves the select only once its context is done,
\* and then with the timeout error; no call returns the timeout error while its
\* context is not done; and when a call that timed out has returned, its id is not a
\* key of the registry.
TimeoutAtDeadline ==
    [][\A p \in Senders :
          /\ (pc[p] = "send_select" /\ pc'[p] # "send_select" /\ ~crashed'
                /\ chans[callId[p]] = <<>>)
             => (hasResponse[p] /\ ctxDone[p] /\ result'[p].kind = "timeout")
          /\ (pc[p] # "send_exit" /\ pc'[p] = "send_exit" /\ result'[p].kind = "timeout")
             => (pc[p] = "send_select" /\ ctxDone[p])
          /\ (pc[p] = "send_exit" /\ result[p].kind = "timeout" /\ pc'[p] # "send_exit"
                /\ ~crashed')
             => ~MapHas(requestRegistry'.entries, callId[p])
      ]_vars

\* a call is about to return the timeout error, no frame in its slot, its entry
\* still in the registry
TimedOutCall ==
    \E p \in Callers :
        /\ pc[p] = "send_exit" /\ result[p].kind = "timeout" /\ hasResponse[p]
        /\ chans[callId[p]] = <<>>
        /\ MapHas(requestRegistry.entries, callId[p])

\* C3: a call with hasResponse = false is never in the insert or in the select: after
\* Transport.send it has its return values, (nil, nil) exactly when the frame left;
\* its id is no key of the registry, it deferred no delete, and nothing is delivered
\* to it, whatever the dispatcher has in hand.
NoResponseCallReturnsAtOnce ==
    \A p \in Senders :
        (InCall(p) /\ ~hasResponse[p]) =>
            /\ pc[p] \in {"send_transport", "send_exit"}
            /\ ~MapHas(requestRegistry.entries, callId[p])
            /\ deferMap[p] = NilMap
            /\ chans[callId[p]] = <<>>
            /\ pc[p] = "send_exit" =>
                  /\ result[p].kind \in {"nil", "senderr"}
                  /\ result[p].kind = "nil" <=> sentFrame[p].sent

\* a call without response returns (nil, nil) while the dispatcher looks up a frame
\* that carries the call's id
NoResponseCallWithFrame ==
    \E p \in Callers :
        /\ pc[p] = "send_exit" /\ ~hasResponse[p] /\ result[p].kind = "nil"
        /\ pc[Dispatcher] = "d_lookup" /\ msg.cid = callId[p]

\* C4: a frame whose envelope decodes and that has no correlation id never reaches
\* the lookup or a delivery channel; when its tag resolves and its payload decodes,
\* the dispatcher's next step hands it to HandlerEvent as the shape its tag resolves
\* to, with the channels as they were.
EventsGoToSink ==
    /\ [](/\ pc[Dispatcher] \in {"d_lookup", "d_send"} => msg.cid # NoId
          /\ \A ch \in ChanIds : \A f \in FramesIn(ch) : f.cid # NoId
          /\ pc[Dispatcher] = "d_event" =>
                /\ msg.cid = NoId
                /\ event.tag = msg.tag
                /\ event.shape = responseMapping(msg.tag)
                /\ event.shape # NoShape)
    /\ [][(/\ pc[Dispatcher] = "d_unmarshal" /\ pc'[Dispatcher] # "d_unmarshal"
           /\ ~crashed'
           /\ msg.kind = "frame" /\ msg.cid = NoId
           /\ responseMapping(msg.tag) # NoShape /\ msg.valid)
          => (/\ pc'[Dispatcher] = "d_event"
              /\ event'.shape = responseMapping(msg.tag)
              /\ chans' = chans /\ result' = result)
      ]_vars

\* HandlerEvent runs on an event while calls are pending in the registry
EventWhileCallsPending ==
    /\ pc[Dispatcher] = "d_event"
    /\ event.shape = "ProtoHeartbeatEvent"
    /\ \E p \in Callers : pc[p] = "send_select" /\ MapHas(requestRegistry.entries, callId[p])

\* C5: when the dispatcher looks up a frame whose id is no key of the registry, its
\* step ends handlerMessage: HandlerEvent is not run, no channel changes, and no
\* sender moves or gets a result.
UnknownIdDropped ==
    [][(/\ pc[Dispatcher] = "d_lookup" /\ pc'[Dispatcher] # "d_lookup"
        /\ ~crashed'
        /\ msg.cid \notin MapKeys(requestRegistry.entries))
       => (/\ pc'[Dispatcher] = "idle"
           /\ event' = NoEvent
           /\ chanResponse' = NoId
           /\ chans' = chans
           /\ result' = result
           /\ \A p \in Senders : pc'[p] = pc[p])
      ]_vars

\* the dispatcher looks up an id that is no key of the registry while a call is blocked
UnknownIdWhileBlocked ==
    /\ pc[Dispatcher] = "d_lookup"
    /\ msg.cid \notin MapKeys(requestRegistry.entries)
    /\ \E p \in Callers : pc[p] = "send_select" /\ chans[callId[p]] = <<>>

\* C6: out-of-order responses.  A delivery changes the channel of a blocked call only
\* with a frame of that call's id, and a blocked call leaves the select only with the
\* timeout error after its context is done, or with what it decodes from a frame of
\* its own id; so a response to B that is dispatched before the one to A completes B
\* and leaves A blocked.
OutOfOrderTolerated ==
    [][\A p \in Blocked :
          ~crashed' =>
            /\ chans'[callId[p]] # chans[callId[p]] =>
                  \/ /\ pc[Dispatcher] = "d_send" /\ msg.cid = callId[p]
                     /\ chans'[callId[p]] = Append(chans[callId[p]], msg)
                  \/ pc'[p] # "send_select"
            /\ pc'[p] # "send_select" =>
                  \/ ctxDone[p] /\ result'[p].kind = "timeout"
                  \/ /\ chans[callId[p]] # <<>>
                     /\ Head(chans[callId[p]]).cid = callId[p]
                     /\ result'[p].kind \in {"ok", "typeerr", "decodeerr"}
                     /\ result'[p].kind = "ok" => result'[p].cid = callId[p]
      ]_vars

\* A's call began before B's, B has its own response, A is still blocked with an
\* empty slot and a context that is not done
LaterCallAnsweredFirst ==
    \E a, b \in Callers :
        /\ callId[a] \in Ids /\ callId[b] \in Ids /\ callId[a] < callId[b]
        /\ pc[a] = "send_select" /\ chans[callId[a]] = <<>> /\ ~ctxDone[a]
        /\ pc[b] = "send_exit" /\ result[b].kind = "ok" /\ result[b].cid = callId[b]

\* C7: recovery.  When handlerError has returned after it opened a new connection,
\* with a call still blocked that sent its request on the connection that failed,
\* the client is running: the stop signal is clear.
RecoveryEndsRunning ==
    (/\ pc["h1"] = "idle" /\ conn > 1
     /\ \E p \in Callers : pc[p] = "send_select" /\ callConn[p] < conn)
    => ~stopSignal

\* C8: no frame received on a connection is in the channel of a blocked call whose
\* request left on an earlier connection.
NoAnswerFromNewConnection ==
    \A p \in Blocked : \A f \in FramesIn(callId[p]) : f.conn = callConn[p]

\* C9: the envelope a call of send handed to Transport.send carries a correlation
\* id exactly when the call expects a response.
CorrelationIdIffResponse ==
    \A p \in Senders :
        sentFrame[p].sent => (sentFrame[p].cid # NoId <=> hasResponse[p])

\* C10: no activity is at an access to the registry without holding the mutex while
\* another activity is at an access to it: the content of the same map (insert,
\* deferred delete, lookup), or the field that Start replaces.
AtField(p) ==
    \/ p \in Senders /\ pc[p] \in {"send_insert", "send_defer"}
    \/ p = Dispatcher /\ pc[p] = "d_lookup"
RegistryAccessUnderLock ==
    /\ ~MapRace
    /\ \A p \in Lifecycle : \A q \in (Senders \cup {Dispatcher}) \ {p} :
          ~(pc[p] = "start_registry" /\ ~Holds(p) /\ AtField(q))

\* C11: Transport.start is never invoked while the transport is started: whoever is
\* about to call it (line 46) finds the transport stopped.
StartOnlyWhenStopped ==
    \A p \in Lifecycle : pc[p] = "start_transport" => transport = "stopped"

\* C12: Transport.stop is never invoked while a tracked background activity is
\* running: whoever is about to call it (line 62) finds the wait group at zero.
StopAfterQuiescence ==
    \A h \in Handlers : pc[h] = "stop_transport" => wg = 0

\* C13: Start leaves the client running: while a keepalive loop is tracked and no
\* Stop is waiting for it, the stop signal is clear.
StartMakesRunning ==
    (wg > 0 /\ \A h \in Handlers : pc[h] # "stop_wait") => ~stopSignal

\* C14: the entry of a call is in the registry from before its frame is handed to
\* Transport.send until the call exits: while a call waits for the response to a
\* frame that left on the connection that is open now, its id is a key of the
\* registry, so the dispatcher finds it.
EntryPresentWhileAwaited ==
    \A p \in Senders :
        (pc[p] = "send_select" /\ sentFrame[p].sent /\ callConn[p] = conn)
            => MapHas(requestRegistry.entries, callId[p])

\* C15: every id in the registry is the id of a call of send that registered it and
\* has not returned; a call returns by every path (response, unknown type, decode
\* failure, Transport.send failure, context done) with its id out of the registry;
\* and a call whose Transport.send failed has its return values at once, without the
\* select.
EntriesNeverOutliveCall ==
    /\ [](\A e \in requestRegistry.entries :
            \E p \in Senders :
                /\ pc[p] \in {"send_defer", "send_transport", "send_select", "send_exit"}
                /\ hasResponse[p] /\ callId[p] = e[1])
    /\ [][\A p \in Senders :
            /\ (pc[p] = "send_exit" /\ pc'[p] # "send_exit" /\ ~crashed')
               => ~MapHas(requestRegistry'.entries, callId[p])
            /\ (pc[p] = "send_transport" /\ pc'[p] # "send_transport" /\ ~crashed'
                  /\ ~sentFrame'[p].sent)
               => (pc'[p] = "send_exit" /\ result'[p].kind = "senderr")
      ]_vars

\* a call whose Transport.send failed is about to return, its entry still in the
\* registry, while the dispatcher holds a frame
FailedSendStillRegistered ==
    \E p \in Callers :
        /\ pc[p] = "send_exit" /\ result[p].kind = "senderr"
        /\ MapHas(requestRegistry.entries, callId[p])
        /\ pc[Dispatcher] # "idle"

\* C16: within one handlerError the sequence restarts from Stop.  After the backoff
\* the next action is Stop; Start is entered only from a Transport.stop that
\* succeeded (the transport is stopped); a Stop or a Start that failed leads to the
\* backoff and nowhere else; and the handler returns only from a Start that went
\* through to the keepalive.
RecoveryRestartsFromStop ==
    [][\A h \in Handlers :
          ~crashed' =>
            /\ (pc[h] = "backoff" /\ pc'[h] # "backoff") => pc'[h] = "stop_store"
            /\ (pc[h] # "start_transport" /\ pc'[h] = "start_transport")
               => (pc[h] = "stop_transport" /\ transport' = "stopped")
            /\ (pc[h] = "stop_transport" /\ pc'[h] \notin {"stop_transport", "start_transport"})
               => pc'[h] = "backoff"
            /\ (pc[h] = "start_transport" /\ pc'[h] \notin {"start_transport", "start_registry"})
               => pc'[h] = "backoff"
            /\ (pc[h] = "send_exit" /\ pc'[h] # "send_exit")
               => pc'[h] = (IF result[h].kind = "ok" THEN "start_keepalive" ELSE "backoff")
            /\ (pc[h] # "idle" /\ pc'[h] = "idle") => pc[h] = "start_keepalive"
      ]_vars

\* handlerError sleeps after a Start that opened the new connection and then failed
\* at the handshake
BackoffAfterFailedStart ==
    \E h \in Handlers : pc[h] = "backoff" /\ conn > 1 /\ transport = "started"

\* C17: a frame whose envelope does not decode, or an event whose tag does not
\* resolve or whose payload does not decode, ends handlerMessage with nothing else
\* changed: the registry and the channels as they were, HandlerEvent not run, no
\* sender moved, no Stop or Start begun, the transport and the stop signal as they
\* were.
FrameErrorsContained ==
    [][(/\ pc[Dispatcher] = "d_unmarshal" /\ pc'[Dispatcher] # "d_unmarshal"
        /\ ~crashed'
        /\ \/ msg.kind = "malformed"
           \/ /\ msg.kind = "frame" /\ msg.cid = NoId
              /\ (responseMapping(msg.tag) = NoShape \/ ~msg.valid))
       => (/\ pc'[Dispatcher] = "idle"
           /\ event' = NoEvent
           /\ requestRegistry' = requestRegistry
           /\ chans' = chans
           /\ result' = result
           /\ \A p \in Senders : pc'[p] = pc[p]
           /\ stopSignal' = stopSignal /\ transport' = transport /\ wg' = wg)
      ]_vars

\* the dispatcher has an event of a payload that does not decode in hand while a call
\* is pending
BadEventWhileCallPending ==
    /\ pc[Dispatcher] = "d_unmarshal"
    /\ msg.kind = "frame" /\ msg.cid = NoId
    /\ responseMapping(msg.tag) # NoShape /\ ~msg.valid
    /\ \E p \in Callers : pc[p] = "send_select" /\ MapHas(requestRegistry.entries, callId[p])

\* C18: the mutex is held only around one insert or one lookup: a sender holds it
\* only at the insert, the dispatcher only at the lookup; nobody holds it at a
\* channel send, in the select, at Transport.send or in Stop.
LockOnlyAroundMapAccess ==
    /\ \A p \in Senders : Holds(p) => pc[p] = "send_insert"
    /\ Holds(Dispatcher) => pc[Dispatcher] = "d_lookup"
    /\ \A p \in Senders \cup {Dispatcher} :
          pc[p] \in {"d_send", "send_select", "send_transport", "stop_wait", "stop_transport"}
             => ~Holds(p)

\* a caller holds the lock for its insert while the dispatcher is at its channel send
\* and a Stop waits for the keepalive loop
InsertWhileOthersBlocked ==
    \E p \in Callers : \E h \in Handlers :
        /\ Holds(p) /\ pc[p] = "send_insert"
        /\ pc[Dispatcher] = "d_send"
        /\ pc[h] = "stop_wait" /\ wg > 0

\* C19: the channel send of the dispatcher always completes: whenever the dispatcher
\* is at "chanResponse <- &msg", the slot of the channel is free, or the call that
\* owns the channel has not yet left its select and can still take what is in it.
DeliveryAlwaysCompletes ==
    pc[Dispatcher] = "d_send" =>
        \/ Len(chans[chanResponse]) < 1
        \/ \E p \in Senders :
              /\ callId[p] = chanResponse
              /\ pc[p] \in {"send_defer", "send_transport", "send_select"}

\* C20: a frame is dropped as "not found" only after its call is gone or after a
\* reconnect: when the dispatcher looks up the id of a frame that came in on the
\* open connection while the call that sent this id on this connection is still in
\* its select, the lookup finds the entry and the dispatcher goes on to the channel
\* send on that call's channel.
WaitingCallIsFound ==
    [][(/\ pc[Dispatcher] = "d_lookup" /\ pc'[Dispatcher] # "d_lookup" /\ ~crashed'
        /\ msg.conn = conn
        /\ \E p \in Senders :
              /\ pc[p] = "send_select" /\ sentFrame[p].sent
              /\ callConn[p] = conn /\ callId[p] = msg.cid)
          => (pc'[Dispatcher] = "d_send" /\ chanResponse' = msg.cid)]_vars
====
